---------------------------- MODULE Spec2Model ----------------------------
(***************************************************************************)
(* GameLore AI (src/app.py): the credits / XP ledger and the lifecycle of  *)
(* a POST /generate request, and the POST /like/<gen_id> handler.           *)
(*                                                                         *)
(* src/app.py holds two iterations of the application.  Both /generate     *)
(* handlers are modelled:                                                  *)
(*   ver = 1  lines 148-165: debit and award_xp (which commits), then the  *)
(*            Generation is added to the session; the handler ends there,  *)
(*            so the pending INSERT is discarded when the request's        *)
(*            session is removed;                                          *)
(*   ver = 2  lines 326-363: debit, XP, badges and the Generation are      *)
(*            flushed by one db.session.commit().                          *)
(*                                                                         *)
(* Persistence is SQLAlchemy's unit of work: login_required loads the      *)
(* User row into the request's session (the snapshot); the handler         *)
(* computes new attribute values in Python from that snapshot; commit      *)
(* writes the attributes whose value differs from the loaded one, as       *)
(* absolute values (UPDATE user SET credits = <value>).  Each request has  *)
(* its own session, requests run concurrently, and the steps of a handler  *)
(* between which another request may commit are separate actions.          *)
(*                                                                         *)
(* A handler reads and writes the row of current_user and the Generation   *)
(* it adds, nothing else, so the model follows the row of one account and  *)
(* the requests made in its name.                                          *)
(***************************************************************************)
EXTENDS Integers, Sequences, FiniteSets, TLC

\* ------------------------------------------------------------- bounds
MaxConc == 2        \* /generate requests in flight at once
MaxReq == 3         \* /generate requests in a run
MaxLikeConc == 2    \* /like requests in flight at once
MaxLikes == 2       \* /like requests in a run
MaxGenId == 2       \* the gen_id of a /like request is in 1..MaxGenId

\* ------------------------------------------------- program constants
StartCredits == 5
XpPerRequest == 10
ScribeXp == 50

FAILED_V1 == "AI Generation failed. Please try again."
FAILED_V2 == "AI Generation failed."
CONTENT == "## Lore"
IMAGE == "https://image.pollinations.ai/prompt/..."
CurrentUser == "current_user.id"

Slots == 1..MaxConc
LikeSlots == 1..MaxLikeConc

VARIABLES
    is_pro,     \* User.is_pro
    credits,    \* User.credits, the committed column
    xp,         \* User.xp, the committed column
    badges,     \* User.badges, the committed JSON text (a token sequence)
    gens,       \* the Generation table; a record's id is its index
    req,        \* the /generate requests, one per worker
    started,    \* number of /generate requests received so far
    like,       \* the /like requests, one per worker
    likesStarted, \* number of /like requests received so far
    likesDone,  \* history: completed /like requests per gen_id
    rowver,     \* history: commits made to the User row
    prior       \* history: generations the account made before Init

vars == <<is_pro, credits, xp, badges, gens, req, started, like,
          likesStarted, likesDone, rowver, prior>>

\* ------------------------------------------------------ pure helpers

\* json.dumps of a list of badge names: "[", the names separated by ",", "]".
RECURSIVE Joined(_)
Joined(list) ==
    IF list = <<>> THEN <<>>
    ELSE IF Len(list) = 1 THEN <<list[1]>>
    ELSE <<list[1], ",">> \o Joined(Tail(list))

json_dumps(list) == <<"[">> \o Joined(list) \o <<"]">>

\* json.loads of such a text: the names between the brackets and separators.
json_loads(text) ==
    SelectSeq(text, LAMBDA t : t \notin {"[", "]", ","})

Contains(list, name) == \E i \in 1..Len(list) : list[i] = name

\* The entitlement check of generate: the request goes on unless
\* "not current_user.is_pro and current_user.credits < 1".
EntitledOffByOne(pro, c) == ~(~pro /\ c < 0)
EntitledUnchecked(pro, c) == TRUE
Entitled(pro, c) == ~(~pro /\ c < 1)

\* "if not current_user.is_pro: current_user.credits -= 1"
DebitAlways(pro, c) == c - 1
Debit(pro, c) == IF ~pro THEN c - 1 ELSE c

\* The badge step of award_xp / generate, on the XP after the award and the
\* loaded badges text: loads, appends "Scribe" when due, dumps.
AwardBadgesNoMembershipTest(newxp, text) ==
    LET b == json_loads(text)
    IN  json_dumps(IF newxp >= ScribeXp THEN Append(b, "Scribe") ELSE b)
AwardBadges(newxp, text) ==
    LET b == json_loads(text)
    IN  json_dumps(IF newxp >= ScribeXp /\ ~Contains(b, "Scribe")
                   THEN Append(b, "Scribe") ELSE b)

\* The column value after a flush: an attribute is part of the UPDATE only
\* when its value differs from the loaded one.
Flushed(committed, loaded, new) == IF new # loaded THEN new ELSE committed

\* ---------------------------------------------------------- the state

IdleReq == [pc |-> "idle", ver |-> 0, credits |-> 0, xp |-> 0,
            badges |-> <<>>, rowver |-> 0, text |-> "", charged |-> FALSE,
            gen_id |-> 0]

IdleLike == [pc |-> "idle", gen_id |-> 0, likes |-> 0]

Generation(content, image) ==
    [user_id |-> CurrentUser, content |-> content, image_url |-> image,
     likes |-> 0]

\* The account is the one google_auth created (credits = the column default,
\* xp = 0, badges = "[]") after prior sequential ver = 2 requests: each took
\* one credit, gave 10 XP and left one record.  is_pro is set outside
\* src/app.py.
Init ==
    /\ is_pro \in BOOLEAN
    /\ prior \in 0..StartCredits
    /\ credits = StartCredits - prior
    /\ xp = XpPerRequest * prior
    /\ badges = json_dumps(IF XpPerRequest * prior >= ScribeXp
                           THEN <<"Scribe">> ELSE <<>>)
    /\ gens = [i \in 1..prior |-> Generation(CONTENT, IMAGE)]
    /\ req = [r \in Slots |-> IdleReq]
    /\ started = 0
    /\ like = [l \in LikeSlots |-> IdleLike]
    /\ likesStarted = 0
    /\ likesDone = [g \in 1..MaxGenId |-> 0]
    /\ rowver = 0

Finished(pc) == pc \in {"idle", "done", "rejected", "failed"}

\* ------------------------------------------------------- POST /generate

\* The worker a new request runs on: the first free one.
FreeSlot ==
    LET free == {r \in Slots : Finished(req[r].pc)}
    IN  IF free = {} THEN 0 ELSE CHOOSE r \in free : \A q \in free : r <= q

\* login_required / load_user: a new request arrives; the account's row is
\* loaded into the request's session.
login_required(r) ==
    /\ r = FreeSlot
    /\ started < MaxReq
    /\ started' = started + 1
    /\ req' = [req EXCEPT ![r] =
                 [pc |-> "loaded", ver |-> 0, credits |-> credits, xp |-> xp,
                  badges |-> badges, rowver |-> rowver, text |-> "",
                  charged |-> FALSE, gen_id |-> 0]]
    /\ UNCHANGED <<is_pro, credits, xp, badges, gens, like, likesStarted,
                   likesDone, rowver, prior>>

\* The entitlement check, on the loaded row: "Out of credits" or go on.
\* The two iterations of the handler are the same up to here.
generate_check(r) ==
    /\ req[r].pc = "loaded"
    /\ req' = [req EXCEPT ![r].pc =
                 IF Entitled(is_pro, req[r].credits)
                 THEN "entitled" ELSE "rejected"]
    /\ UNCHANGED <<is_pro, credits, xp, badges, gens, started, like,
                   likesStarted, likesDone, rowver, prior>>

\* ver = 1: the text producer.  A 200 answer gives the content; any other
\* status or an exception gives the fixed failure text.
call_groq_api(r) ==
    /\ req[r].pc = "entitled"
    /\ \E ok \in BOOLEAN :
          req' = [req EXCEPT ![r].pc = "produced", ![r].ver = 1,
                             ![r].text = IF ok THEN CONTENT ELSE FAILED_V1]
    /\ UNCHANGED <<is_pro, credits, xp, badges, gens, started, like,
                   likesStarted, likesDone, rowver, prior>>

\* ver = 2: the text producer.
generate_text_groq(r) ==
    /\ req[r].pc = "entitled"
    /\ \E ok \in BOOLEAN :
          req' = [req EXCEPT ![r].pc = "produced", ![r].ver = 2,
                             ![r].text = IF ok THEN CONTENT ELSE FAILED_V2]
    /\ UNCHANGED <<is_pro, credits, xp, badges, gens, started, like,
                   likesStarted, likesDone, rowver, prior>>

\* The UPDATE of the account's row that a commit flushes, from the values
\* the request computed out of its snapshot.
FlushUser(r) ==
    LET newxp == req[r].xp + XpPerRequest
    IN  /\ credits' = Flushed(credits, req[r].credits,
                              Debit(is_pro, req[r].credits))
        /\ xp' = Flushed(xp, req[r].xp, newxp)
        /\ badges' = Flushed(badges, req[r].badges,
                             AwardBadges(newxp, req[r].badges))
        /\ rowver' = rowver + 1

\* ver = 1, lines 160-162: the debit, then award_xp(current_user, 10), whose
\* db.session.commit() makes the debit, the XP and the badges durable.
award_xp(r) ==
    /\ req[r].pc = "produced"
    /\ req[r].ver = 1
    /\ FlushUser(r)
    /\ req' = [req EXCEPT ![r].pc = "awarded", ![r].charged = TRUE]
    /\ UNCHANGED <<is_pro, gens, started, like, likesStarted, likesDone,
                   prior>>

\* ver = 1, lines 164-165: the Generation is added to the session and the
\* handler ends; nothing commits it, and the session is removed with the
\* request, so the record is never stored.
generate_add(r) ==
    /\ req[r].pc = "awarded"
    /\ req[r].ver = 1
    /\ req' = [req EXCEPT ![r].pc = "failed"]
    /\ UNCHANGED <<is_pro, credits, xp, badges, gens, started, like,
                   likesStarted, likesDone, rowver, prior>>

\* ver = 2, lines 341-363: the image URL (data.get('details')[:100] raises
\* when the form has no "details" field: the request fails, nothing is
\* written), then the debit, the XP, the badges and the new Generation, in
\* one commit.
generate_commit(r) ==
    /\ req[r].pc = "produced"
    /\ req[r].ver = 2
    /\ \E details \in BOOLEAN :
          IF ~details
          THEN /\ req' = [req EXCEPT ![r].pc = "failed"]
               /\ UNCHANGED <<credits, xp, badges, gens, rowver>>
          ELSE /\ FlushUser(r)
               /\ gens' = Append(gens, Generation(req[r].text, IMAGE))
               /\ req' = [req EXCEPT ![r].pc = "done", ![r].charged = TRUE,
                                     ![r].gen_id = Len(gens) + 1]
    /\ UNCHANGED <<is_pro, started, like, likesStarted, likesDone, prior>>

\* ----------------------------------------------------- POST /like/<id>

\* Generation.query.get_or_404(gen_id): the record is loaded, or 404.
like_load(l, g) ==
    /\ like[l].pc \in {"idle", "done", "notfound"}
    /\ likesStarted < MaxLikes
    /\ likesStarted' = likesStarted + 1
    /\ like' = [like EXCEPT ![l] =
                  IF g <= Len(gens)
                  THEN [pc |-> "loaded", gen_id |-> g, likes |-> gens[g].likes]
                  ELSE [pc |-> "notfound", gen_id |-> g, likes |-> 0]]
    /\ UNCHANGED <<is_pro, credits, xp, badges, gens, req, started,
                   likesDone, rowver, prior>>

\* gen.likes += 1 on the loaded value, then db.session.commit().
like_content(l) ==
    /\ like[l].pc = "loaded"
    /\ gens' = [gens EXCEPT ![like[l].gen_id].likes = like[l].likes + 1]
    /\ likesDone' = [likesDone EXCEPT ![like[l].gen_id] = @ + 1]
    /\ like' = [like EXCEPT ![l].pc = "done"]
    /\ UNCHANGED <<is_pro, credits, xp, badges, req, started, likesStarted,
                   rowver, prior>>

\* ------------------------------------------------------ specifications

\* The /generate requests of both iterations of the handler.
Next ==
    \/ \E r \in Slots : login_required(r)
    \/ \E r \in Slots : generate_check(r)
    \/ \E r \in Slots : call_groq_api(r)
    \/ \E r \in Slots : generate_text_groq(r)
    \/ \E r \in Slots : award_xp(r)
    \/ \E r \in Slots : generate_add(r)
    \/ \E r \in Slots : generate_commit(r)

Spec == Init /\ [][Next]_vars

\* The /generate requests of the later handler (lines 326-363) alone.
NextV2 ==
    \/ \E r \in Slots : login_required(r)
    \/ \E r \in Slots : generate_check(r)
    \/ \E r \in Slots : generate_text_groq(r)
    \/ \E r \in Slots : generate_commit(r)

SpecV2 == Init /\ [][NextV2]_vars

\* The /like requests, on the records the account holds.
NextLike ==
    \/ \E l \in LikeSlots, g \in 1..MaxGenId : like_load(l, g)
    \/ \E l \in LikeSlots : like_content(l)

SpecLike == Init /\ [][NextLike]_vars

\* -------------------------------------------------------------- claims

ScribeCount == Cardinality({i \in 1..Len(json_loads(badges)) :
                               json_loads(badges)[i] = "Scribe"})

AllFinished == \A r \in Slots : Finished(req[r].pc)

\* Two requests that read the same state of the row: neither saw a commit
\* of the other, so they ran concurrently.
Concurrent(r1, r2) ==
    /\ r1 # r2
    /\ req[r1].pc # "idle" /\ req[r2].pc # "idle"
    /\ req[r1].rowver = req[r2].rowver

\* C1: the committed credits of the account are never negative, whatever
\* the interleaving of the check, the producer call and the decrement of
\* the /generate requests.
C1_CreditsNonNegative == credits >= 0

\* C1 witness: two requests of a non-subscribed account read the same row,
\* both passed the check and both committed their decrement, down to 0.
C1_Witness ==
    /\ ~is_pro
    /\ credits = 0
    /\ \E r1, r2 \in Slots :
          Concurrent(r1, r2) /\ req[r1].charged /\ req[r2].charged

\* C2 (as claimed): of two concurrent requests of a non-subscribed account
\* that both read credits = 1, at most one is accepted, i.e. passes the
\* check and commits a Generation record.
C2_AtMostOneAccepted ==
    ~is_pro =>
       ~\E r1, r2 \in Slots :
           /\ Concurrent(r1, r2)
           /\ req[r1].credits = 1 /\ req[r2].credits = 1
           /\ req[r1].pc = "done" /\ req[r1].gen_id # 0
           /\ req[r2].pc = "done" /\ req[r2].gen_id # 0

\* C3: a request that read credits = 0 of a non-subscribed account is
\* rejected: it never invokes a producer (no text), commits no record and
\* writes nothing to the row.
C3_OutOfCreditsRejected ==
    \A r \in Slots :
       (~is_pro /\ req[r].pc \notin {"idle", "loaded"} /\ req[r].credits = 0)
          => /\ req[r].pc = "rejected"
             /\ req[r].text = ""
             /\ ~req[r].charged
             /\ req[r].gen_id = 0

\* C3 witness: such a request, rejected.
C3_Witness ==
    /\ ~is_pro
    /\ \E r \in Slots : req[r].pc = "rejected" /\ req[r].credits = 0

\* C4: for a subscribed account no request is rejected, and credits keeps
\* the value it had before the requests.
C4_ProNeverDebited ==
    is_pro => /\ credits = StartCredits - prior
              /\ \A r \in Slots : req[r].pc # "rejected"

\* C4 witness: a subscribed account with no credits left, and two requests
\* of it that went through to their commit.
C4_Witness ==
    /\ is_pro
    /\ credits = 0
    /\ \E r1, r2 \in Slots :
          r1 # r2 /\ req[r1].charged /\ req[r2].charged

\* C5 (as claimed): in no persisted state is the ledger update of a request
\* committed while its Generation record is not.
C5_ChargedOnlyWithRecord ==
    \A r \in Slots :
       req[r].charged => (req[r].gen_id \in 1..Len(gens))

\* C6 (as claimed): once every /like request has completed, each record's
\* likes is its initial value, 0, plus the number of completed requests.
C6_NoLostLike ==
    (\A l \in LikeSlots : like[l].pc # "loaded")
       => \A g \in 1..MaxGenId :
             g <= Len(gens) => gens[g].likes = likesDone[g]

\* C7: "Scribe" occurs at most once in the committed badges, and it is
\* there exactly once as soon as the committed xp is 50 or more.
C7_ScribeAtMostOnce ==
    /\ ScribeCount <= 1
    /\ xp >= ScribeXp => ScribeCount = 1

\* C7 witness: a request that read xp >= 50 (the badge already held)
\* committed its award, and the badge is still there once.
C7_Witness ==
    /\ ScribeCount = 1
    /\ \E r \in Slots :
          req[r].charged /\ req[r].xp >= ScribeXp
             /\ Contains(json_loads(req[r].badges), "Scribe")

\* C8 (as claimed): the committed xp never decreases from one state to the
\* next (and is never negative).
C8_XpMonotone == [][xp' >= xp /\ xp >= 0]_vars

\* C9 (as claimed): a request whose only producer failed leaves a Generation
\* record with empty outputs.
C9_FailedLeavesEmptyOutputs ==
    \A r \in Slots :
       (req[r].pc = "done" /\ req[r].text \in {FAILED_V1, FAILED_V2})
          => /\ req[r].gen_id \in 1..Len(gens)
             /\ gens[req[r].gen_id].content = ""
             /\ gens[req[r].gen_id].image_url = ""

\* C10 (as claimed): for a non-subscribed account, once its requests have
\* completed, the credits spent equal the records added, and the xp gained
\* is 10 for each of them.
C10_Conservation ==
    (~is_pro /\ AllFinished) =>
       /\ (StartCredits - prior) - credits = Len(gens) - prior
       /\ xp = XpPerRequest * prior + XpPerRequest * (Len(gens) - prior)

=============================================================================
